---- MODULE Spec2Model ----
(***************************************************************************)
(* A model of BrinkOAuthClient                                             *)
(* (custom_components/brink_ventilation_1-1/core/brink_oauth.py).          *)
(*                                                                         *)
(* The session object is the pair of stored tokens.  A top-level call      *)
(* (authenticate, refresh_access_token, get_auth_headers,                  *)
(* is_authenticated) runs from pc = "idle".  The two coroutines suspend at *)
(* every network request; one action of the model is one request, the      *)
(* answer the server (or the transport) gives to it, and all the code      *)
(* that runs until the next request is issued or the call returns.         *)
(* The server is the environment: every answer is drawn from a small set   *)
(* of responses, or is a transport error.                                  *)
(*                                                                         *)
(* URLs, header values and tokens are strings.  Python's None is the       *)
(* value None.  The random state and nonce of the authorize request are    *)
(* never read back by the code and are left out of the request text.       *)
(***************************************************************************)
EXTENDS Integers, Sequences, FiniteSets, TLC

VARIABLES
  access_token,    \* self._access_token
  refresh_token,   \* self._refresh_token
  pc,              \* where the running call is suspended ("idle": no call)
  op,              \* the top-level call in progress, or the last one made
  code_verifier,   \* authenticate(): local code_verifier
  location,        \* authenticate() / _follow_redirects_for_code(): location
  redirect_count,  \* _follow_redirects_for_code(): redirect_count
  post,            \* authenticate(): login_url and login_data of the pending POST
  code,            \* authenticate(): the code handed to _exchange_code_for_token
  error_msg,       \* authenticate(): error_msg of the failed login, if extracted
  auth_ret,        \* what the authenticate() run inside the current call returned
  requests,        \* the requests of the current call, each with its answer
  ret              \* what the last completed call returned

vars == <<access_token, refresh_token, pc, op, code_verifier, location,
          redirect_count, post, code, error_msg, auth_ret, requests, ret>>

None == "None"

(* Python truthiness of an optional string: `if x` / `if not x`. *)
Truthy(x) == x # None /\ x # ""

-----------------------------------------------------------------------------
(* Module constants, brink_oauth.py lines 15-20. *)
Origin == "https://www.brink-home.com"
IDSRV_BASE == "https://www.brink-home.com/idsrv"
AUTH_ENDPOINT == IDSRV_BASE \o "/connect/authorize"
TOKEN_ENDPOINT == IDSRV_BASE \o "/connect/token"
REDIRECT_URI == "https://www.brink-home.com/app"
CLIENT_ID == "spa"
SCOPES == "openid api role locale"
max_redirects == 10

(* Constructor arguments: the credentials of the one account. *)
Username == "user"
Password == "secret"

-----------------------------------------------------------------------------
(* The URLs the modelled server hands out in Location headers. *)
LocLogin == "https://www.brink-home.com/idsrv/login?ReturnUrl=%2Fapp"
LocRel == "/idsrv/redirect1"
LocAbs == "https://www.brink-home.com/idsrv/redirect2"
LocCodeXYZ == "https://www.brink-home.com/app?code=XYZ&state=S"
LocCodeABC == "https://www.brink-home.com/app?code=ABC"
LocRelCode == "/app?state=S&code=ABC"
LocBlankCode == "https://www.brink-home.com/app?code=&state=S"
FormActionPath == "/idsrv/login?ReturnUrl=%2Fapp"

(* urlparse(url).query followed by the splitting of parse_qsl: the        *)
(* name/value pairs of the query string in their order, percent-decoded.   *)
UrlQueryPairs(url) ==
  CASE url = LocLogin -> << <<"ReturnUrl", "/app">> >>
    [] url = FormActionPath -> << <<"ReturnUrl", "/app">> >>
    [] url = Origin \o FormActionPath -> << <<"ReturnUrl", "/app">> >>
    [] url = LocCodeXYZ -> << <<"code", "XYZ">>, <<"state", "S">> >>
    [] url = LocCodeABC -> << <<"code", "ABC">> >>
    [] url = LocRelCode -> << <<"state", "S">>, <<"code", "ABC">> >>
    [] url = Origin \o LocRelCode -> << <<"state", "S">>, <<"code", "ABC">> >>
    [] url = LocBlankCode -> << <<"code", "">>, <<"state", "S">> >>
    [] OTHER -> << >>

(* parse_qs(query): keep_blank_values is False, so a pair with an empty    *)
(* value is dropped; the values of one name are listed in their order.     *)
RECURSIVE QsValues(_, _)
QsValues(pairs, name) ==
  IF pairs = << >> THEN << >>
  ELSE LET p == Head(pairs)
           rest == QsValues(Tail(pairs), name)
       IN IF p[1] = name /\ p[2] # "" THEN <<p[2]>> \o rest ELSE rest

(* query_params.get(name, [default])[0] *)
QsFirst(url, name, default) ==
  LET vs == QsValues(UrlQueryPairs(url), name)
  IN IF vs = << >> THEN default ELSE vs[1]

(* _extract_code *)
ExtractCode(url) ==
  IF ~Truthy(url) THEN None ELSE QsFirst(url, "code", None)

(* location.startswith('/') *)
StartsWithSlash(url) == url \in {LocRel, LocRelCode, FormActionPath}

(* aiohttp accepts only an absolute URL; anything else raises InvalidURL.  *)
IsAbsoluteUrl(url) == url # "" /\ url # None /\ ~StartsWithSlash(url)

(* 'ReturnUrl=' in form_action *)
HasReturnUrlParam(url) ==
  \E i \in 1..Len(UrlQueryPairs(url)) : UrlQueryPairs(url)[i][1] = "ReturnUrl"

-----------------------------------------------------------------------------
(* HTML.  A page is the sequence of its tags; a tag has a name, its        *)
(* attributes in their order as <<name, value>> pairs, and the text that   *)
(* follows it, as a sequence of characters.                                *)
Tag(name, attrs, text) == [tag |-> name, attrs |-> attrs, text |-> text]

LoginPage ==
  << Tag("form", << <<"action", FormActionPath>>, <<"method", "post">> >>, << >>),
     Tag("input", << <<"type", "hidden">>,
                     <<"name", "__RequestVerificationToken">>,
                     <<"value", "tok1">> >>, << >>) >>

AlertText == <<" ", "b", "a", "d", " ", "p", "w", " ">>

AlertPage ==
  << Tag("div", << <<"class", "alert alert-danger">> >>, AlertText) >>

PlainPage ==
  << Tag("div", << <<"class", "content">> >>, <<"h", "i">>) >>

NoPage == << >>

MinOf(S) == CHOOSE x \in S : \A y \in S : x <= y
MaxOf(S) == CHOOSE x \in S : \A y \in S : x >= y

(* The positions of the attributes name="<non-empty value>" of a tag. *)
AttrAt(el, name) ==
  {i \in 1..Len(el.attrs) : el.attrs[i][1] = name /\ el.attrs[i][2] # ""}

(* Variant: a page without a form is given the usual login path. *)
ExtractFormActionDefault(html) ==
  LET hits == {i \in 1..Len(html) :
                 html[i].tag = "form" /\ AttrAt(html[i], "action") # {}}
  IN IF hits = {} THEN FormActionPath
     ELSE LET el == html[MinOf(hits)]
          IN el.attrs[MaxOf(AttrAt(el, "action"))][2]

(* _extract_form_action: re.search(r'<form[^>]+action="([^"]+)"', html),   *)
(* the first form tag that has a non-empty action; None without a match.   *)
ExtractFormAction(html) ==
  LET hits == {i \in 1..Len(html) :
                 html[i].tag = "form" /\ AttrAt(html[i], "action") # {}}
  IN IF hits = {} THEN None
     ELSE LET el == html[MinOf(hits)]
          IN el.attrs[MaxOf(AttrAt(el, "action"))][2]

(* The pattern name="<field>"[^>]+value="([^"]+)": a tag whose name        *)
(* attribute is the field and which has a non-empty value attribute after  *)
(* it; '' without a match.                                                 *)
ValuesAfterName(el, field) ==
  {k \in AttrAt(el, "value") :
     \E j \in AttrAt(el, "name") : j < k /\ el.attrs[j][2] = field}

ExtractHiddenField(html, field) ==
  LET hits == {i \in 1..Len(html) : ValuesAfterName(html[i], field) # {}}
  IN IF hits = {} THEN ""
     ELSE LET el == html[MinOf(hits)]
          IN el.attrs[MaxOf(ValuesAfterName(el, field))][2]

(* _extract_antiforgery_token *)
ExtractAntiforgeryToken(html) ==
  ExtractHiddenField(html, "__RequestVerificationToken")

(* _extract_return_url *)
ExtractReturnUrl(html) == ExtractHiddenField(html, "ReturnUrl")

(* [^"]*alert[^"]* on the class values the modelled pages use. *)
ClassHasAlert(c) == c \in {"alert", "alert alert-danger"}

IsSpace(ch) == ch = " "

(* str.strip() *)
RECURSIVE LStrip(_)
LStrip(t) == IF t # << >> /\ IsSpace(Head(t)) THEN LStrip(Tail(t)) ELSE t

RECURSIVE RStrip(_)
RStrip(t) ==
  IF t # << >> /\ IsSpace(t[Len(t)]) THEN RStrip(SubSeq(t, 1, Len(t) - 1)) ELSE t

Strip(t) == RStrip(LStrip(t))

(* An optional text: Python's None, or a str given by its characters. *)
NoText == [found |-> FALSE, text |-> << >>]
SomeText(t) == [found |-> TRUE, text |-> t]

(* _extract_error_message:                                                 *)
(* re.search(r'<div[^>]+class="[^"]*alert[^"]*"[^>]*>([^<]+)', html),      *)
(* stripped; None without a match.                                         *)
ExtractErrorMessage(html) ==
  LET hits == {i \in 1..Len(html) :
                 /\ html[i].tag = "div"
                 /\ \E j \in AttrAt(html[i], "class") :
                      ClassHasAlert(html[i].attrs[j][2])
                 /\ html[i].text # << >>}
  IN IF hits = {} THEN NoText ELSE SomeText(Strip(html[MinOf(hits)].text))

-----------------------------------------------------------------------------
(* What a request is answered with: a transport error (the aiohttp call    *)
(* raises), or a response with a status, a Location header ('' when the    *)
(* header is missing), an HTML body, and for the token endpoint a body     *)
(* that response.json() either parses to a dict or raises on.              *)
NoJson == << >>

TransportError ==
  [error |-> TRUE, status |-> 0, location |-> "", html |-> NoPage,
   json_ok |-> FALSE, json |-> NoJson]

Response(status, loc, html) ==
  [error |-> FALSE, status |-> status, location |-> loc, html |-> html,
   json_ok |-> FALSE, json |-> NoJson]

JsonResponse(status, body) ==
  [error |-> FALSE, status |-> status, location |-> "", html |-> NoPage,
   json_ok |-> TRUE, json |-> body]

(* tokens.get(key) *)
DictGet(d, key) == IF key \in DOMAIN d THEN d[key] ELSE None

TokenBodies ==
  { [access_token |-> "T1", refresh_token |-> "R1"],
    [access_token |-> "T2"],
    [refresh_token |-> "R2"],
    [access_token |-> "", refresh_token |-> None] }

AuthorizeResponses ==
  { Response(200, "", LoginPage), Response(200, "", AlertPage),
    Response(302, LocLogin, NoPage), Response(302, LocCodeXYZ, NoPage),
    Response(302, LocRel, NoPage), Response(302, "", NoPage),
    Response(400, "", PlainPage), Response(500, "", NoPage), TransportError }

LoginPageResponses ==
  { Response(200, "", LoginPage), Response(200, "", PlainPage),
    Response(302, LocLogin, NoPage), Response(500, "", NoPage), TransportError }

LoginPostResponses ==
  { Response(302, LocRel, NoPage), Response(302, LocAbs, NoPage),
    Response(302, LocRelCode, NoPage), Response(302, LocBlankCode, NoPage),
    Response(302, "", NoPage),
    Response(200, "", AlertPage), Response(200, "", PlainPage),
    Response(500, "", NoPage), TransportError }

HopResponses ==
  { Response(302, LocRel, NoPage), Response(302, LocCodeABC, NoPage),
    Response(302, "", NoPage), Response(303, LocCodeABC, NoPage),
    Response(200, "", PlainPage), Response(404, "", NoPage), TransportError }

TokenResponses ==
  {JsonResponse(200, b) : b \in TokenBodies}
    \cup { Response(200, "", PlainPage),
           JsonResponse(400, [error |-> "invalid_grant"]),
           Response(401, "", NoPage), TransportError }

(* session.get(url) / session.post(url): a URL that is not absolute is     *)
(* refused by the client before anything is sent.                          *)
Answers(url, responses) ==
  IF IsAbsoluteUrl(url) THEN responses ELSE {TransportError}

-----------------------------------------------------------------------------
(* What a coroutine hands back: a boolean, or an exception that reaches    *)
(* the caller.                                                             *)
Outcome(v) == [val |-> v, raised |-> FALSE]
Raised == [val |-> FALSE, raised |-> TRUE]

NotRun == [run |-> FALSE, out |-> Outcome(FALSE)]
NoRet == [fn |-> "none"]
NoPost == [url |-> "", data |-> << >>]
NoData == << >>

(* _generate_pkce: 32 random bytes; the challenge is the SHA-256 digest of *)
(* the verifier, modelled as an injective function of it.                  *)
Verifiers == {"V1", "V2"}
Challenge(verifier) == "S256:" \o verifier

Init ==
  /\ access_token = None
  /\ refresh_token = None
  /\ pc = "idle"
  /\ op = "none"
  /\ code_verifier = None
  /\ location = ""
  /\ redirect_count = 0
  /\ post = NoPost
  /\ code = None
  /\ error_msg = NoText
  /\ auth_ret = NotRun
  /\ requests = << >>
  /\ ret = NoRet

Request(site, method, url, data, resp) ==
  [site |-> site, method |-> method, url |-> url, data |-> data, resp |-> resp]

(* The running coroutine goes on to its next request. *)
Goto(p, loc, cnt, pst, cd) ==
  /\ pc' = p
  /\ location' = loc
  /\ redirect_count' = cnt
  /\ post' = pst
  /\ code' = cd
  /\ UNCHANGED <<op, code_verifier, auth_ret, ret>>

(* Variant: the fallback's outcome is dropped and failure is reported. *)
RefreshFallbackAlwaysFalse(out) == Outcome(FALSE)

(* `return await self.authenticate()` in refresh_access_token. *)
RefreshFallback(out) == out

(* authenticate() returns: to the caller, or to refresh_access_token,      *)
(* which returns the same value at once.                                   *)
AuthenticateReturn(out) ==
  /\ pc' = "idle"
  /\ location' = ""
  /\ redirect_count' = 0
  /\ post' = NoPost
  /\ code' = None
  /\ code_verifier' = None
  /\ auth_ret' = [run |-> TRUE, out |-> out]
  /\ ret' = [fn |-> op,
             out |-> IF op = "refresh_access_token"
                       THEN RefreshFallback(out) ELSE out]
  /\ UNCHANGED op

(* Variant: the except clause lets the exception through. *)
AuthenticateExceptReraise == Raised

(* The except clause of authenticate(): log and return False. *)
AuthenticateExcept == Outcome(FALSE)

(* authenticate() up to its first request: a new PKCE pair. *)
BeginAuthenticate ==
  /\ \E v \in Verifiers : code_verifier' = v
  /\ pc' = "authorize"
  /\ location' = ""
  /\ redirect_count' = 0
  /\ post' = NoPost
  /\ code' = None

CallAuthenticate ==
  /\ pc = "idle"
  /\ op' = "authenticate"
  /\ requests' = << >>
  /\ error_msg' = NoText
  /\ auth_ret' = NotRun
  /\ ret' = NoRet
  /\ BeginAuthenticate
  /\ UNCHANGED <<access_token, refresh_token>>

(* authenticate(), from the login page to the credential POST. *)
LoginData(html, form_action) ==
  LET hidden == ExtractReturnUrl(html)
      return_url == IF ~Truthy(hidden) /\ HasReturnUrlParam(form_action)
                      THEN QsFirst(form_action, "ReturnUrl", "")
                      ELSE hidden
  IN [Username |-> Username, Password |-> Password, ReturnUrl |-> return_url,
      RequestVerificationToken |-> ExtractAntiforgeryToken(html),
      button |-> "login", RememberLogin |-> "false"]

AfterLoginPage(html) ==
  LET form_action == ExtractFormAction(html)
  IN IF ~Truthy(form_action)
       THEN AuthenticateReturn(Outcome(FALSE))
       ELSE Goto("login_post", "", 0,
                 [url |-> Origin \o form_action,
                  data |-> LoginData(html, form_action)], None)

(* Variant: a 302 is always taken to lead to the login page. *)
AuthorizeDecisionNoCodeCheck(r) ==
  IF r.error THEN "except"
  ELSE IF r.status = 400 THEN "fail"
  ELSE IF r.status = 302 THEN "login_page"
  ELSE IF r.status = 200 THEN "page"
  ELSE "fail"

(* The branch authenticate() takes on the answer to the authorize GET. *)
AuthorizeDecision(r) ==
  IF r.error THEN "except"
  ELSE IF r.status = 400 THEN "fail"
  ELSE IF r.status = 302
    THEN IF Truthy(ExtractCode(r.location)) THEN "exchange" ELSE "login_page"
  ELSE IF r.status = 200 THEN "page"
  ELSE "fail"

AuthParams(challenge) ==
  [client_id |-> CLIENT_ID, redirect_uri |-> REDIRECT_URI,
   response_type |-> "code", scope |-> SCOPES, code_challenge |-> challenge,
   code_challenge_method |-> "S256", response_mode |-> "query"]

Authorize ==
  /\ pc = "authorize"
  /\ \E r \in Answers(AUTH_ENDPOINT, AuthorizeResponses) :
       /\ requests' = Append(requests,
            Request("authorize", "GET", AUTH_ENDPOINT,
                    AuthParams(Challenge(code_verifier)), r))
       /\ CASE AuthorizeDecision(r) = "except" ->
                 AuthenticateReturn(AuthenticateExcept)
            [] AuthorizeDecision(r) = "fail" ->
                 AuthenticateReturn(Outcome(FALSE))
            [] AuthorizeDecision(r) = "exchange" ->
                 Goto("exchange", "", 0, NoPost, ExtractCode(r.location))
            [] AuthorizeDecision(r) = "login_page" ->
                 Goto("login_page", r.location, 0, NoPost, None)
            [] AuthorizeDecision(r) = "page" -> AfterLoginPage(r.html)
  /\ UNCHANGED <<access_token, refresh_token, error_msg>>

(* The GET of the login page the authorize request redirected to. *)
LoginPageDecision(r) ==
  IF r.error THEN "except"
  ELSE IF r.status # 200 THEN "fail"
  ELSE "page"

FetchLoginPage ==
  /\ pc = "login_page"
  /\ \E r \in Answers(location, LoginPageResponses) :
       /\ requests' = Append(requests,
            Request("login_page", "GET", location, NoData, r))
       /\ CASE LoginPageDecision(r) = "except" ->
                 AuthenticateReturn(AuthenticateExcept)
            [] LoginPageDecision(r) = "fail" ->
                 AuthenticateReturn(Outcome(FALSE))
            [] LoginPageDecision(r) = "page" -> AfterLoginPage(r.html)
  /\ UNCHANGED <<access_token, refresh_token, error_msg>>

(* Variant: a relative location is requested as it is. *)
ResolveNothing(loc) == loc

(* location = f"https://www.brink-home.com{location}" for a relative one *)
Resolve(loc) == IF StartsWithSlash(loc) THEN Origin \o loc ELSE loc

(* Variant: the loop test does not look at the count. *)
LoopHeadUnbounded(loc, cnt) ==
  IF Truthy(loc)
    THEN IF Truthy(ExtractCode(loc))
           THEN [kind |-> "found", code |-> ExtractCode(loc),
                 location |-> loc, count |-> cnt]
           ELSE [kind |-> "get", code |-> None,
                 location |-> Resolve(loc), count |-> cnt + 1]
    ELSE [kind |-> "none", code |-> None, location |-> loc, count |-> cnt]

(* Variant: the loop test admits one pass too many (<= for <). *)
LoopHeadOffByOne(loc, cnt) ==
  IF Truthy(loc) /\ cnt <= max_redirects
    THEN IF Truthy(ExtractCode(loc))
           THEN [kind |-> "found", code |-> ExtractCode(loc),
                 location |-> loc, count |-> cnt]
           ELSE [kind |-> "get", code |-> None,
                 location |-> Resolve(loc), count |-> cnt + 1]
    ELSE [kind |-> "none", code |-> None, location |-> loc, count |-> cnt]

(* _follow_redirects_for_code, one pass from the loop test to the next GET *)
(* or to the return.                                                       *)
LoopHead(loc, cnt) ==
  IF Truthy(loc) /\ cnt < max_redirects
    THEN IF Truthy(ExtractCode(loc))
           THEN [kind |-> "found", code |-> ExtractCode(loc),
                 location |-> loc, count |-> cnt]
           ELSE [kind |-> "get", code |-> None,
                 location |-> Resolve(loc), count |-> cnt + 1]
    ELSE [kind |-> "none", code |-> None, location |-> loc, count |-> cnt]

(* Variant: authenticate() goes on to the exchange whatever the follower   *)
(* returned.                                                               *)
FollowLoopNoCheck(loc, cnt) ==
  LET h == LoopHead(loc, cnt)
  IN CASE h.kind = "found" -> Goto("exchange", "", 0, NoPost, h.code)
       [] h.kind = "get" -> Goto("follow", h.location, h.count, NoPost, None)
       [] h.kind = "none" -> Goto("exchange", "", 0, NoPost, None)

(* The follower runs on, and authenticate() with what it returns:          *)
(* `if not code: return False`, else the code exchange.                    *)
FollowLoop(loc, cnt) ==
  LET h == LoopHead(loc, cnt)
  IN CASE h.kind = "found" -> Goto("exchange", "", 0, NoPost, h.code)
       [] h.kind = "get" -> Goto("follow", h.location, h.count, NoPost, None)
       [] h.kind = "none" -> AuthenticateReturn(Outcome(FALSE))

(* Variant: a 200 answer to the credential POST is taken as a success too. *)
LoginPostDecisionAccepts200(r) ==
  IF r.error THEN "except"
  ELSE IF r.status # 302 /\ r.status # 200 THEN "rejected"
  ELSE "follow"

(* The branch taken on the answer to the credential POST. *)
LoginPostDecision(r) ==
  IF r.error THEN "except"
  ELSE IF r.status # 302 THEN "rejected"
  ELSE "follow"

SubmitLogin ==
  /\ pc = "login_post"
  /\ \E r \in Answers(post.url, LoginPostResponses) :
       /\ requests' = Append(requests,
            Request("login_post", "POST", post.url, post.data, r))
       /\ CASE LoginPostDecision(r) = "except" ->
                 /\ AuthenticateReturn(AuthenticateExcept)
                 /\ UNCHANGED error_msg
            [] LoginPostDecision(r) = "rejected" ->
                 /\ error_msg' = ExtractErrorMessage(r.html)
                 /\ AuthenticateReturn(Outcome(FALSE))
            [] LoginPostDecision(r) = "follow" ->
                 /\ FollowLoop(r.location, 0)
                 /\ UNCHANGED error_msg
  /\ UNCHANGED <<access_token, refresh_token>>

(* Variant: every redirect status is followed, not 302 alone. *)
HopDecisionAnyRedirect(r) ==
  IF r.error THEN "break"
  ELSE IF r.status \in {301, 302, 303, 307, 308} THEN "advance"
  ELSE "break"

(* The branch the follower takes on the answer to a hop; an exception of   *)
(* the GET is caught inside the loop and breaks it.                        *)
HopDecision(r) ==
  IF r.error THEN "break"
  ELSE IF r.status = 302 THEN "advance"
  ELSE "break"

FollowHop ==
  /\ pc = "follow"
  /\ \E r \in Answers(location, HopResponses) :
       /\ requests' = Append(requests,
            Request("hop", "GET", location, NoData, r))
       /\ CASE HopDecision(r) = "advance" ->
                 FollowLoop(r.location, redirect_count)
            [] HopDecision(r) = "break" ->
                 AuthenticateReturn(Outcome(FALSE))
  /\ UNCHANGED <<access_token, refresh_token, error_msg>>

(* Variant: the status of the token response is not looked at. *)
ExchangeDecisionAnyStatus(r) ==
  IF r.error THEN "except"
  ELSE IF ~r.json_ok THEN "except"
  ELSE "store"

(* _exchange_code_for_token: the branch taken on the token response. *)
ExchangeDecision(r) ==
  IF r.error THEN "except"
  ELSE IF r.status # 200 THEN "fail"
  ELSE IF ~r.json_ok THEN "except"
  ELSE "store"

(* Variant: the verifier posted is a fixed one, not the attempt's own. *)
ExchangeDataFixedVerifier(cd, verifier) ==
  [grant_type |-> "authorization_code", client_id |-> CLIENT_ID, code |-> cd,
   code_verifier |-> "V1", redirect_uri |-> REDIRECT_URI]

ExchangeData(cd, verifier) ==
  [grant_type |-> "authorization_code", client_id |-> CLIENT_ID, code |-> cd,
   code_verifier |-> verifier, redirect_uri |-> REDIRECT_URI]

(* Variant: the body is stored before the status is looked at. *)
ExchangeStoredBeforeStatus(r, held, key) ==
  IF ~r.error /\ r.json_ok THEN DictGet(r.json, key) ELSE held

(* Variant: only the access token is stored. *)
ExchangeStoredAccessOnly(r, held, key) ==
  IF ExchangeDecision(r) = "store" /\ key = "access_token"
    THEN DictGet(r.json, key) ELSE held

(* Variant: a key the body lacks leaves the held token in place. *)
ExchangeStoredKeepsAbsent(r, held, key) ==
  IF ExchangeDecision(r) = "store" /\ key \in DOMAIN r.json
    THEN r.json[key] ELSE held

(* self._access_token = tokens.get('access_token') and                     *)
(* self._refresh_token = tokens.get('refresh_token'), reached on a parsed  *)
(* 200 answer only: the token held under `key` after the exchange.         *)
ExchangeStored(r, held, key) ==
  IF ExchangeDecision(r) = "store" THEN DictGet(r.json, key) ELSE held

(* Variant: a failed exchange posts the code again. *)
ExchangeFailedRetry == Goto("exchange", "", 0, NoPost, code)

(* `return False` of _exchange_code_for_token, which authenticate() passes *)
(* on.                                                                     *)
ExchangeFailed == AuthenticateReturn(Outcome(FALSE))

ExchangeCode ==
  /\ pc = "exchange"
  /\ \E r \in Answers(TOKEN_ENDPOINT, TokenResponses) :
       /\ requests' = Append(requests,
            Request("token", "POST", TOKEN_ENDPOINT,
                    ExchangeData(code, code_verifier), r))
       /\ access_token' = ExchangeStored(r, access_token, "access_token")
       /\ refresh_token' = ExchangeStored(r, refresh_token, "refresh_token")
       /\ IF ExchangeDecision(r) = "store"
            THEN AuthenticateReturn(Outcome(TRUE))
            ELSE ExchangeFailed
  /\ UNCHANGED error_msg

(* Variant: the refresh grant is tried whatever is held. *)
RefreshTokenHeldAlways(token) == TRUE

(* `if not self._refresh_token` decides against the refresh grant. *)
RefreshTokenHeld(token) == Truthy(token)

(* refresh_access_token *)
CallRefresh ==
  /\ pc = "idle"
  /\ op' = "refresh_access_token"
  /\ requests' = << >>
  /\ error_msg' = NoText
  /\ auth_ret' = NotRun
  /\ ret' = NoRet
  /\ IF ~RefreshTokenHeld(refresh_token)
       THEN BeginAuthenticate
       ELSE /\ pc' = "refresh_post"
            /\ UNCHANGED <<code_verifier, location, redirect_count, post, code>>
  /\ UNCHANGED <<access_token, refresh_token>>

(* Variant: the status of the refresh response is not looked at. *)
RefreshDecisionAnyStatus(r) ==
  IF r.error THEN "reauthenticate"
  ELSE IF ~r.json_ok THEN "reauthenticate"
  ELSE "store"

(* The branch taken on the answer to the refresh_token-grant POST. *)
RefreshDecision(r) ==
  IF r.error THEN "reauthenticate"
  ELSE IF r.status # 200 THEN "reauthenticate"
  ELSE IF ~r.json_ok THEN "reauthenticate"
  ELSE "store"

RefreshData(token) ==
  [grant_type |-> "refresh_token", client_id |-> CLIENT_ID,
   refresh_token |-> token]

(* Variant: the refresh token is overwritten as the code exchange does. *)
RotatedRefreshTokenOverwrite(tokens, held) == DictGet(tokens, "refresh_token")

(* `if 'refresh_token' in tokens: self._refresh_token = ...` *)
RotatedRefreshToken(tokens, held) ==
  IF "refresh_token" \in DOMAIN tokens THEN tokens["refresh_token"] ELSE held

RefreshPost ==
  /\ pc = "refresh_post"
  /\ \E r \in Answers(TOKEN_ENDPOINT, TokenResponses) :
       /\ requests' = Append(requests,
            Request("refresh", "POST", TOKEN_ENDPOINT,
                    RefreshData(refresh_token), r))
       /\ IF RefreshDecision(r) = "store"
            THEN /\ access_token' = DictGet(r.json, "access_token")
                 /\ refresh_token' = RotatedRefreshToken(r.json, refresh_token)
                 /\ pc' = "idle"
                 /\ ret' = [fn |-> op, out |-> Outcome(TRUE)]
                 /\ UNCHANGED <<op, code_verifier, location, redirect_count,
                                post, code, auth_ret>>
            ELSE /\ BeginAuthenticate
                 /\ UNCHANGED <<access_token, refresh_token, op, auth_ret, ret>>
  /\ UNCHANGED error_msg

(* Variant: the header is built whenever the token is not None. *)
GetAuthHeadersNotNone(token) ==
  IF token = None THEN {} ELSE {<<"Authorization", "Bearer " \o token>>}

(* get_auth_headers: the header set, as a set of <<name, value>> pairs. *)
GetAuthHeaders(token) ==
  IF ~Truthy(token) THEN {} ELSE {<<"Authorization", "Bearer " \o token>>}

CallGetAuthHeaders ==
  /\ pc = "idle"
  /\ ret' = [fn |-> "get_auth_headers", headers |-> GetAuthHeaders(access_token)]
  /\ UNCHANGED <<access_token, refresh_token, pc, op, code_verifier, location,
                 redirect_count, post, code, error_msg, auth_ret, requests>>

(* is_authenticated *)
IsAuthenticated(token) == token # None

CallIsAuthenticated ==
  /\ pc = "idle"
  /\ ret' = [fn |-> "is_authenticated", value |-> IsAuthenticated(access_token)]
  /\ UNCHANGED <<access_token, refresh_token, pc, op, code_verifier, location,
                 redirect_count, post, code, error_msg, auth_ret, requests>>

Next ==
  \/ CallAuthenticate
  \/ Authorize
  \/ FetchLoginPage
  \/ SubmitLogin
  \/ FollowHop
  \/ ExchangeCode
  \/ CallRefresh
  \/ RefreshPost
  \/ CallGetAuthHeaders
  \/ CallIsAuthenticated

Spec == Init /\ [][Next]_vars

(* Every network request eventually returns a response or an error: a     *)
(* coroutine suspended at a request is resumed.  Whether a caller makes    *)
(* another call is left open.                                              *)
Resumed ==
  /\ WF_vars(Authorize)
  /\ WF_vars(FetchLoginPage)
  /\ WF_vars(SubmitLogin)
  /\ WF_vars(FollowHop)
  /\ WF_vars(ExchangeCode)
  /\ WF_vars(RefreshPost)

SpecLive == Init /\ [][Next]_vars /\ Resumed

-----------------------------------------------------------------------------
(* _extract_code as a function of the text of the URL.  Here a URL is the  *)
(* sequence of its characters, so that urlparse and parse_qs are computed  *)
(* from the text.  The URLs are written from a list of query parameters,   *)
(* kept in post.data next to the text in location; no parameter holds a    *)
(* '%' or a '+', which unquoting would rewrite.                            *)
MaxParams == 3
MaxCalls == 2

CodeName == <<"c", "o", "d", "e">>
StateName == <<"s", "t", "a", "t", "e">>
Abc123 == <<"a", "b", "c", "1", "2", "3">>
UrlBase == <<"h", "t", "t", "p", "s", ":", "/", "/", "h", "/", "a">>

(* A query parameter as it is written: name, then '=' and a value if eq. *)
Param(name, eq, value) == [name |-> name, eq |-> eq, value |-> value]

CodeAbc123 == Param(CodeName, TRUE, Abc123)

ParamKinds ==
  { CodeAbc123,
    Param(StateName, TRUE, <<"S">>),
    Param(<<"x">> \o CodeName, TRUE, Abc123),
    Param(CodeName, TRUE, << >>),
    Param(CodeName, FALSE, << >>),
    Param(CodeName, TRUE, <<"z", "z">>) }

Queries == UNION {[1..n -> ParamKinds] : n \in 0..MaxParams}

RenderParam(p) == p.name \o (IF p.eq THEN <<"=">> \o p.value ELSE << >>)

RECURSIVE JoinParams(_)
JoinParams(q) ==
  IF q = << >> THEN << >>
  ELSE IF Len(q) = 1 THEN RenderParam(q[1])
  ELSE RenderParam(q[1]) \o <<"&">> \o JoinParams(Tail(q))

(* The URL with the query q, and with a fragment that reads like a code    *)
(* parameter if frag.                                                      *)
RenderUrl(q, frag) ==
  UrlBase \o (IF q = << >> THEN << >> ELSE <<"?">> \o JoinParams(q))
          \o (IF frag THEN <<"#">> \o RenderParam(CodeAbc123) ELSE << >>)

ExtractInputs ==
  {[url |-> << >>, params |-> << >>]}
    \cup {[url |-> RenderUrl(q, frag), params |-> q] :
            q \in Queries, frag \in BOOLEAN}

(* s.split(ch, 1): the position of the first ch (0: none), the text before *)
(* it and the text after it.                                               *)
FirstAt(s, ch) ==
  LET hits == {i \in 1..Len(s) : s[i] = ch}
  IN IF hits = {} THEN 0 ELSE MinOf(hits)

Before(s, ch) == IF FirstAt(s, ch) = 0 THEN s ELSE SubSeq(s, 1, FirstAt(s, ch) - 1)

After(s, ch) ==
  IF FirstAt(s, ch) = 0 THEN << >> ELSE SubSeq(s, FirstAt(s, ch) + 1, Len(s))

(* s.split(ch) *)
RECURSIVE Split(_, _)
Split(s, ch) ==
  IF FirstAt(s, ch) = 0 THEN <<s>>
  ELSE <<Before(s, ch)>> \o Split(After(s, ch), ch)

(* urlparse(url).query: the fragment is cut off at the first '#', and the  *)
(* query is what follows the first '?' of the rest.                        *)
UrlQuery(url) == After(Before(url, "#"), "?")

(* parse_qsl on the '&'-separated fields: a field without '=' is skipped,  *)
(* and so is one with an empty value (keep_blank_values is False).         *)
RECURSIVE FieldPairs(_)
FieldPairs(fields) ==
  IF fields = << >> THEN << >>
  ELSE LET nv == Head(fields)
       IN (IF FirstAt(nv, "=") = 0 \/ After(nv, "=") = << >>
             THEN << >>
             ELSE << <<Before(nv, "="), After(nv, "=")>> >>)
          \o FieldPairs(Tail(fields))

ParseQsl(query) == FieldPairs(Split(query, "&"))

(* parse_qs(query)[name]: the values of the name, in their order. *)
RECURSIVE ParseQsValues(_, _)
ParseQsValues(pairs, name) ==
  IF pairs = << >> THEN << >>
  ELSE (IF Head(pairs)[1] = name THEN <<Head(pairs)[2]>> ELSE << >>)
       \o ParseQsValues(Tail(pairs), name)

(* Variant: only the first parameter of the query is looked at. *)
ExtractCodeTextFirstParam(url) ==
  IF url = << >> THEN NoText
  ELSE LET pairs == ParseQsl(UrlQuery(url))
       IN IF pairs # << >> /\ pairs[1][1] = CodeName
            THEN SomeText(pairs[1][2]) ELSE NoText

(* _extract_code(url) on the text of the URL; NoText stands for None. *)
ExtractCodeText(url) ==
  IF url = << >> THEN NoText
  ELSE LET vs == ParseQsValues(ParseQsl(UrlQuery(url)), CodeName)
       IN IF vs = << >> THEN NoText ELSE SomeText(vs[1])

InitExtract ==
  /\ access_token = None
  /\ refresh_token = None
  /\ pc = "idle"
  /\ op = "_extract_code"
  /\ code_verifier = None
  /\ \E in \in ExtractInputs :
       /\ location = in.url
       /\ post = [url |-> in.url, data |-> in.params]
  /\ redirect_count = 0
  /\ code = None
  /\ error_msg = NoText
  /\ auth_ret = NotRun
  /\ requests = << >>
  /\ ret = [fn |-> "none", calls |-> 0]

(* One call of _extract_code on the URL. *)
CallExtractCode ==
  /\ pc = "idle"
  /\ ret.calls < MaxCalls
  /\ ret' = [fn |-> "_extract_code", calls |-> ret.calls + 1,
             value |-> ExtractCodeText(location)]
  /\ UNCHANGED <<access_token, refresh_token, pc, op, code_verifier, location,
                 redirect_count, post, code, error_msg, auth_ret, requests>>

NextExtract == CallExtractCode

SpecExtract == InitExtract /\ [][NextExtract]_vars

-----------------------------------------------------------------------------
(* Overlapping authenticate() calls on one session.  The event loop runs   *)
(* one coroutine at a time and switches only where a coroutine awaits:     *)
(* at each request, and at response.json() of the token response.  Here    *)
(* pc, code_verifier, location, redirect_count, post, code and ret hold    *)
(* one value per call (they are locals of the call); the two tokens are    *)
(* the session's.  requests is the log of the token POSTs, each with the   *)
(* call that issued it and its answer.                                     *)
Calls == {"a", "b"}

InitOverlap ==
  /\ access_token = None
  /\ refresh_token = None
  /\ pc = [c \in Calls |-> "idle"]
  /\ op = "authenticate"
  /\ code_verifier = [c \in Calls |-> None]
  /\ location = [c \in Calls |-> ""]
  /\ redirect_count = [c \in Calls |-> 0]
  /\ post = [c \in Calls |-> NoPost]
  /\ code = [c \in Calls |-> None]
  /\ error_msg = NoText
  /\ auth_ret = NotRun
  /\ requests = << >>
  /\ ret = [c \in Calls |-> NoRet]

(* Call c goes on to its next await. *)
GotoOf(c, p, loc, cnt, pst, cd) ==
  /\ pc' = [pc EXCEPT ![c] = p]
  /\ location' = [location EXCEPT ![c] = loc]
  /\ redirect_count' = [redirect_count EXCEPT ![c] = cnt]
  /\ post' = [post EXCEPT ![c] = pst]
  /\ code' = [code EXCEPT ![c] = cd]
  /\ UNCHANGED <<code_verifier, ret>>

(* Call c returns. *)
ReturnOf(c, out) ==
  /\ pc' = [pc EXCEPT ![c] = "done"]
  /\ location' = [location EXCEPT ![c] = ""]
  /\ redirect_count' = [redirect_count EXCEPT ![c] = 0]
  /\ post' = [post EXCEPT ![c] = NoPost]
  /\ code' = [code EXCEPT ![c] = None]
  /\ code_verifier' = [code_verifier EXCEPT ![c] = None]
  /\ ret' = [ret EXCEPT ![c] = [fn |-> "authenticate", out |-> out]]

OverlapCall(c) ==
  /\ pc[c] = "idle"
  /\ \E v \in Verifiers : code_verifier' = [code_verifier EXCEPT ![c] = v]
  /\ pc' = [pc EXCEPT ![c] = "authorize"]
  /\ UNCHANGED <<access_token, refresh_token, op, location, redirect_count,
                 post, code, error_msg, auth_ret, requests, ret>>

AfterLoginPageOf(c, html) ==
  LET form_action == ExtractFormAction(html)
  IN IF ~Truthy(form_action)
       THEN ReturnOf(c, Outcome(FALSE))
       ELSE GotoOf(c, "login_post", "", 0,
                   [url |-> Origin \o form_action,
                    data |-> LoginData(html, form_action)], None)

OverlapAuthorize(c) ==
  /\ pc[c] = "authorize"
  /\ \E r \in Answers(AUTH_ENDPOINT, AuthorizeResponses) :
       CASE AuthorizeDecision(r) = "except" -> ReturnOf(c, AuthenticateExcept)
         [] AuthorizeDecision(r) = "fail" -> ReturnOf(c, Outcome(FALSE))
         [] AuthorizeDecision(r) = "exchange" ->
              GotoOf(c, "exchange", "", 0, NoPost, ExtractCode(r.location))
         [] AuthorizeDecision(r) = "login_page" ->
              GotoOf(c, "login_page", r.location, 0, NoPost, None)
         [] AuthorizeDecision(r) = "page" -> AfterLoginPageOf(c, r.html)
  /\ UNCHANGED <<access_token, refresh_token, op, error_msg, auth_ret, requests>>

OverlapFetchLoginPage(c) ==
  /\ pc[c] = "login_page"
  /\ \E r \in Answers(location[c], LoginPageResponses) :
       CASE LoginPageDecision(r) = "except" -> ReturnOf(c, AuthenticateExcept)
         [] LoginPageDecision(r) = "fail" -> ReturnOf(c, Outcome(FALSE))
         [] LoginPageDecision(r) = "page" -> AfterLoginPageOf(c, r.html)
  /\ UNCHANGED <<access_token, refresh_token, op, error_msg, auth_ret, requests>>

FollowLoopOf(c, loc, cnt) ==
  LET h == LoopHead(loc, cnt)
  IN CASE h.kind = "found" -> GotoOf(c, "exchange", "", 0, NoPost, h.code)
       [] h.kind = "get" -> GotoOf(c, "follow", h.location, h.count, NoPost, None)
       [] h.kind = "none" -> ReturnOf(c, Outcome(FALSE))

OverlapSubmitLogin(c) ==
  /\ pc[c] = "login_post"
  /\ \E r \in Answers(post[c].url, LoginPostResponses) :
       CASE LoginPostDecision(r) = "except" -> ReturnOf(c, AuthenticateExcept)
         [] LoginPostDecision(r) = "rejected" -> ReturnOf(c, Outcome(FALSE))
         [] LoginPostDecision(r) = "follow" -> FollowLoopOf(c, r.location, 0)
  /\ UNCHANGED <<access_token, refresh_token, op, error_msg, auth_ret, requests>>

OverlapFollowHop(c) ==
  /\ pc[c] = "follow"
  /\ \E r \in Answers(location[c], HopResponses) :
       CASE HopDecision(r) = "advance" ->
              FollowLoopOf(c, r.location, redirect_count[c])
         [] HopDecision(r) = "break" -> ReturnOf(c, Outcome(FALSE))
  /\ UNCHANGED <<access_token, refresh_token, op, error_msg, auth_ret, requests>>

(* The token POST of call c is answered: a status other than 200 or an     *)
(* exception ends the call, a 200 goes on to `await response.json()`.      *)
OverlapExchangePost(c) ==
  /\ pc[c] = "exchange"
  /\ \E r \in Answers(TOKEN_ENDPOINT, TokenResponses) :
       /\ requests' = Append(requests,
                             [call |-> c, resp |-> r,
                              data |-> ExchangeData(code[c], code_verifier[c])])
       /\ IF ExchangeDecision(r) = "fail" \/ r.error
            THEN ReturnOf(c, Outcome(FALSE))
            ELSE GotoOf(c, "json", "", 0, NoPost, None)
  /\ UNCHANGED <<access_token, refresh_token, op, error_msg, auth_ret>>

(* The answer to the token POST of call c. *)
TokenAnswerOf(c) ==
  LET i == CHOOSE i \in 1..Len(requests) : requests[i].call = c
  IN requests[i].resp

(* response.json() of call c returns or raises; with the body parsed both  *)
(* tokens are assigned, with no await between the two assignments.         *)
OverlapResumeJson(c) ==
  /\ pc[c] = "json"
  /\ LET r == TokenAnswerOf(c)
     IN /\ access_token' = ExchangeStored(r, access_token, "access_token")
        /\ refresh_token' = ExchangeStored(r, refresh_token, "refresh_token")
        /\ IF ExchangeDecision(r) = "store"
             THEN ReturnOf(c, Outcome(TRUE))
             ELSE ReturnOf(c, Outcome(FALSE))
  /\ UNCHANGED <<op, error_msg, auth_ret, requests>>

NextOverlap ==
  \E c \in Calls :
    \/ OverlapCall(c)
    \/ OverlapAuthorize(c)
    \/ OverlapFetchLoginPage(c)
    \/ OverlapSubmitLogin(c)
    \/ OverlapFollowHop(c)
    \/ OverlapExchangePost(c)
    \/ OverlapResumeJson(c)

SpecOverlap == InitOverlap /\ [][NextOverlap]_vars

-----------------------------------------------------------------------------
(* Properties.                                                             *)

Answered(q, status) == ~q.resp.error /\ q.resp.status = status
SitesOf(rq) == {rq[i].site : i \in 1..Len(rq)}
Hops(rq) == {i \in 1..Len(rq) : rq[i].site = "hop"}
Completed(fn) == pc = "idle" /\ op = fn
Returned(fn) == pc = "idle" /\ op = fn /\ ret.fn = fn
Bearer(token) == {<<"Authorization", "Bearer " \o token>>}

(* The refresh_token-grant POST of the current call was answered 401. *)
Refresh401 ==
  /\ op = "refresh_access_token"
  /\ requests # << >>
  /\ requests[1].site = "refresh"
  /\ Answered(requests[1], 401)

(* C1: a refresh whose POST is answered 401 runs authenticate(); when it   *)
(* returns, it returns a boolean without raising, and the session holds an *)
(* access token if that authenticate() succeeded and none otherwise.       *)
C1_RefreshFallback ==
  (Refresh401 /\ Returned("refresh_access_token")) =>
    /\ auth_ret.run
    /\ ~ret.out.raised
    /\ ret.out.val \in BOOLEAN
    /\ (auth_ret.out = Outcome(TRUE) => IsAuthenticated(access_token))
    /\ (auth_ret.out # Outcome(TRUE) => ~IsAuthenticated(access_token))

(* A get_auth_headers() call has just returned. *)
HeadersStep == pc = "idle" /\ ret'.fn = "get_auth_headers" /\ ret' # ret

SessionUnchanged ==
  UNCHANGED <<access_token, refresh_token, pc, op, code_verifier, location,
              redirect_count, post, code, error_msg, auth_ret, requests>>

C3_NeverRaises ==
  /\ (pc = "idle" /\ ret.fn \in {"authenticate", "refresh_access_token"}) =>
       (~ret.out.raised /\ ret.out.val \in BOOLEAN)
  /\ auth_ret.run => ~auth_ret.out.raised

C3_Witness ==
  /\ Returned("refresh_access_token")
  /\ Len(requests) = 2
  /\ requests[1].site = "refresh" /\ requests[1].resp.error
  /\ requests[2].site = "authorize" /\ requests[2].resp.error
  /\ ret.out = Outcome(FALSE)

(* Every GET of the follower so far was answered 302 with a non-empty      *)
(* Location that carries no code, and so was the credential POST.          *)
NoCodeRedirect(q) ==
  /\ Answered(q, 302)
  /\ q.resp.location \in {LocRel, LocAbs}

EndlessRedirects ==
  /\ \E i \in 1..Len(requests) :
       requests[i].site = "login_post" /\ NoCodeRedirect(requests[i])
  /\ \A i \in Hops(requests) : NoCodeRedirect(requests[i])

(* C4: against a server that answers every hop with 302 and a non-empty    *)
(* Location without a code, the follower stops after exactly 10 GETs and   *)
(* returns not-found (authenticate() fails without a token request); there *)
(* is never an 11th GET.                                                   *)
C4_RedirectBound ==
  /\ Cardinality(Hops(requests)) <= 10
  /\ EndlessRedirects =>
       /\ pc = "follow" => Cardinality(Hops(requests)) < 10
       /\ pc = "idle" =>
            /\ Cardinality(Hops(requests)) = 10
            /\ "token" \notin SitesOf(requests)
            /\ auth_ret = [run |-> TRUE, out |-> Outcome(FALSE)]
       /\ pc \in {"follow", "idle"}

C4_Witness ==
  /\ pc = "idle"
  /\ EndlessRedirects
  /\ Cardinality(Hops(requests)) = 10

(* C5: refresh_access_token() returns False only when an authenticate()    *)
(* ran in that call and returned False; a failed refresh POST is always    *)
(* followed by the authorize request of the re-authentication.             *)
C5_FalseOnlyAfterReauth ==
  /\ (Returned("refresh_access_token") /\ ret.out # Outcome(TRUE)) =>
       /\ ret.out = Outcome(FALSE)
       /\ auth_ret = [run |-> TRUE, out |-> Outcome(FALSE)]
       /\ "authorize" \in SitesOf(requests)
  /\ (Completed("refresh_access_token") /\ requests # << >>
        /\ requests[1].site = "refresh" /\ ~Answered(requests[1], 200)) =>
       /\ Len(requests) >= 2
       /\ requests[2].site = "authorize"
       /\ auth_ret.run
       /\ ret.fn = op => ret.out = auth_ret.out

C5_Witness ==
  /\ Returned("refresh_access_token")
  /\ Refresh401
  /\ Len(requests) = 2 /\ Answered(requests[2], 400)
  /\ ret.out = Outcome(FALSE)

(* The position of the authorize GET among the requests of the call: 1 in *)
(* authenticate(), 2 when authenticate() runs as the fallback of a refresh. *)
AuthorizeAt(a) ==
  /\ a \in 1..Len(requests)
  /\ requests[a].site = "authorize"

TokenPostOf(q, cd) ==
  /\ q.site = "token"
  /\ q.method = "POST"
  /\ q.url = "https://www.brink-home.com/idsrv/connect/token"
  /\ q.data.grant_type = "authorization_code"
  /\ q.data.code = cd

(* A 200 token response whose JSON body carries a non-empty access token. *)
GrantsToken(q, token) ==
  /\ Answered(q, 200)
  /\ q.resp.json_ok
  /\ "access_token" \in DOMAIN q.resp.json
  /\ q.resp.json["access_token"] = token

ScenarioA(a) ==
  /\ AuthorizeAt(a)
  /\ Answered(requests[a], 302)
  /\ requests[a].resp.location = LocCodeXYZ

(* C6 (scenario A): after an authorize GET answered 302 with a Location    *)
(* carrying code XYZ, the only further request of authenticate() is the    *)
(* authorization_code token POST with that code; no login page is fetched, *)
(* no credentials are posted; a 200 answer with access_token T1 makes      *)
(* authenticate() return True and get_auth_headers() return Bearer T1.     *)
C6_ScenarioA ==
  \A a \in 1..2 : ScenarioA(a) =>
    /\ pc \in {"exchange", "idle"}
    /\ pc = "exchange" => (Len(requests) = a /\ code = "XYZ")
    /\ pc = "idle" => Len(requests) = a + 1
    /\ Len(requests) = a + 1 =>
         /\ TokenPostOf(requests[a + 1], "XYZ")
         /\ \A t \in {"T1", "T2"} : GrantsToken(requests[a + 1], t) =>
              /\ auth_ret = [run |-> TRUE, out |-> Outcome(TRUE)]
              /\ ret.fn = op => ret.out = Outcome(TRUE)
              /\ access_token = t
              /\ GetAuthHeaders(access_token) = {<<"Authorization", "Bearer " \o t>>}
              /\ ret.fn = "get_auth_headers" =>
                   ret.headers = {<<"Authorization", "Bearer " \o t>>}

C6_Witness ==
  /\ op = "authenticate"
  /\ ScenarioA(1)
  /\ Len(requests) = 2
  /\ GrantsToken(requests[2], "T1")
  /\ ret.fn = "get_auth_headers"
  /\ ret.headers = {<<"Authorization", "Bearer T1">>}

(* The authorize GET returned the login page and the credential POST was   *)
(* answered 302 with the relative, code-free Location /idsrv/redirect1.    *)
ScenarioBLogin(a) ==
  /\ AuthorizeAt(a)
  /\ Answered(requests[a], 200)
  /\ requests[a].resp.html = LoginPage
  /\ Len(requests) >= a + 1
  /\ Answered(requests[a + 1], 302)
  /\ requests[a + 1].resp.location = "/idsrv/redirect1"

ScenarioB(a) ==
  /\ ScenarioBLogin(a)
  /\ Len(requests) >= a + 2
  /\ Answered(requests[a + 2], 302)
  /\ requests[a + 2].resp.location = LocCodeABC

(* C7 (scenario B): login page with a form action, credential POST         *)
(* answered 302 with a relative Location without a code, the GET of that   *)
(* location at the service origin answered 302 with a Location carrying    *)
(* code ABC: authenticate() exchanges exactly ABC, and a 200 token         *)
(* response with an access token makes it return True, authenticated.      *)
C7_ScenarioB ==
  \A a \in 1..2 :
    /\ ScenarioBLogin(a) =>
         /\ requests[a + 1].site = "login_post"
         /\ requests[a + 1].url =
              "https://www.brink-home.com/idsrv/login?ReturnUrl=%2Fapp"
         /\ Len(requests) = a + 1 =>
              (pc = "follow" /\ location = "https://www.brink-home.com/idsrv/redirect1")
         /\ Len(requests) >= a + 2 =>
              /\ requests[a + 2].site = "hop"
              /\ requests[a + 2].method = "GET"
              /\ requests[a + 2].url = "https://www.brink-home.com/idsrv/redirect1"
    /\ ScenarioB(a) =>
         /\ pc \in {"exchange", "idle"}
         /\ pc = "exchange" => (Len(requests) = a + 2 /\ code = "ABC")
         /\ pc = "idle" => Len(requests) = a + 3
         /\ Len(requests) = a + 3 =>
              /\ TokenPostOf(requests[a + 3], "ABC")
              /\ \A t \in {"T1", "T2", ""} : GrantsToken(requests[a + 3], t) =>
                   /\ auth_ret = [run |-> TRUE, out |-> Outcome(TRUE)]
                   /\ ret.fn = op => ret.out = Outcome(TRUE)
                   /\ access_token = t
                   /\ IsAuthenticated(access_token)

C7_Witness ==
  /\ Returned("authenticate")
  /\ ScenarioB(1)
  /\ Len(requests) = 4
  /\ GrantsToken(requests[4], "T1")
  /\ ret.out = Outcome(TRUE)
  /\ access_token = "T1"

(* The credential POST was answered, with a status other than 302. *)
Rejected(q) == q.site = "login_post" /\ ~q.resp.error /\ q.resp.status # 302

(* The text of the first alert element of the modelled pages. *)
AlertOf(html) ==
  IF html = AlertPage
    THEN [found |-> TRUE, text |-> <<"b", "a", "d", " ", "p", "w">>]
    ELSE [found |-> FALSE, text |-> << >>]

(* C8 (scenario C): a credential POST answered with any status other than  *)
(* 302 ends the attempt: authenticate() returns False, the error message   *)
(* is the trimmed alert text of that response body (None without one), and *)
(* neither a redirect-hop GET nor a token POST follows.                    *)
C8_ScenarioC ==
  \A i \in 1..Len(requests) : Rejected(requests[i]) =>
    /\ i = Len(requests)
    /\ pc = "idle"
    /\ auth_ret = [run |-> TRUE, out |-> Outcome(FALSE)]
    /\ ret.fn = op => ret.out = Outcome(FALSE)
    /\ error_msg = AlertOf(requests[i].resp.html)
    /\ "hop" \notin SitesOf(requests)
    /\ "token" \notin SitesOf(requests)

C8_Witness ==
  /\ Returned("authenticate")
  /\ Len(requests) = 2
  /\ Rejected(requests[2])
  /\ Answered(requests[2], 200)
  /\ requests[2].resp.html = AlertPage
  /\ error_msg.found

(* The refresh_token-grant POST of the current call was answered 200. *)
Refresh200 ==
  /\ op = "refresh_access_token"
  /\ requests # << >>
  /\ requests[1].site = "refresh"
  /\ Answered(requests[1], 200)

(* The tokens a 200 refresh response leaves stored: its access token, and  *)
(* its refresh token if it has one, else the one sent in the request.      *)
RefreshStored(q) ==
  /\ access_token = IF "access_token" \in DOMAIN q.resp.json
                      THEN q.resp.json["access_token"] ELSE None
  /\ refresh_token = IF "refresh_token" \in DOMAIN q.resp.json
                       THEN q.resp.json["refresh_token"]
                       ELSE q.data.refresh_token

(* C9 as stated: a refresh POST answered 200 stores the response's access  *)
(* token, replaces the refresh token iff the response has one, returns     *)
(* True and issues no authorize request.                                   *)
C9_Refresh200 ==
  Refresh200 =>
    /\ pc = "idle"
    /\ Len(requests) = 1
    /\ ~auth_ret.run
    /\ ret.fn = op => ret.out = Outcome(TRUE)
    /\ RefreshStored(requests[1])

(* C9 amended: the same, for a refresh POST answered 200 with a body that  *)
(* parses as a JSON object.                                                *)
C9_Refresh200Json ==
  (Refresh200 /\ requests[1].resp.json_ok) =>
    /\ pc = "idle"
    /\ Len(requests) = 1
    /\ ~auth_ret.run
    /\ ret.fn = op => ret.out = Outcome(TRUE)
    /\ RefreshStored(requests[1])

C9_Witness ==
  /\ Returned("refresh_access_token")
  /\ Refresh200
  /\ requests[1].resp.json = [access_token |-> "T2"]
  /\ requests[1].data.refresh_token = "R1"
  /\ refresh_token = "R1"
  /\ access_token = "T2"
  /\ ret.out = Outcome(TRUE)

TokensChange ==
  access_token' # access_token \/ refresh_token' # refresh_token

(* C10: a new session holds no token, and the stored tokens change only in *)
(* the step of authenticate() or refresh_access_token() that processes a   *)
(* 200 response of the token endpoint; every other step (get_auth_headers, *)
(* is_authenticated, the scraping, the redirect follower) leaves them.     *)
C10_TokensFrame ==
  /\ (access_token = None /\ refresh_token = None)
  /\ [][TokensChange =>
          /\ pc \in {"exchange", "refresh_post"}
          /\ op \in {"authenticate", "refresh_access_token"}
          /\ Len(requests') = Len(requests) + 1
          /\ requests'[Len(requests')].url =
               "https://www.brink-home.com/idsrv/connect/token"
          /\ requests'[Len(requests')].method = "POST"
          /\ Answered(requests'[Len(requests')], 200)]_vars

C10_Witness ==
  /\ pc = "idle"
  /\ requests # << >>
  /\ requests[Len(requests)].site = "token"
  /\ Answered(requests[Len(requests)], 200)
  /\ access_token = "T1"
  /\ refresh_token = "R1"

-----------------------------------------------------------------------------
(* The positions of a running authenticate(), called directly or as the    *)
(* fallback of refresh_access_token().                                     *)
AuthenticatePcs == {"authorize", "login_page", "login_post", "follow", "exchange"}

AuthenticateReturns(v) ==
  /\ pc \in AuthenticatePcs
  /\ pc' = "idle"
  /\ auth_ret' = [run |-> TRUE, out |-> Outcome(v)]

(* C11: a session starts with both tokens empty, and no step of an         *)
(* authenticate() call, from its entry to its return, changes access_token *)
(* or refresh_token unless it is the step in which the call returns True;  *)
(* so a call that returns False, on whatever branch, leaves both tokens as *)
(* they were when it was entered, and a failing first call leaves them     *)
(* empty.                                                                  *)
C11_NoPartialTokens ==
  /\ (access_token = None /\ refresh_token = None)
  /\ [][(TokensChange /\ (pc \in AuthenticatePcs \/ pc' \in AuthenticatePcs))
          => AuthenticateReturns(TRUE)]_vars

(* A failed token exchange has left the tokens of an earlier login. *)
C11_Witness ==
  /\ Completed("authenticate")
  /\ auth_ret = [run |-> TRUE, out |-> Outcome(FALSE)]
  /\ requests[Len(requests)].site = "token"
  /\ Answered(requests[Len(requests)], 400)
  /\ requests[Len(requests)].resp.json_ok
  /\ access_token = "T1"
  /\ refresh_token = "R1"

-----------------------------------------------------------------------------
(* The URL was written with a parameter named code. *)
NamesCode(q) == \E i \in 1..Len(q) : q[i].name = CodeName

(* The query holds code=abc123, and whatever else: parameters of other     *)
(* names, in any number and order, and code parameters without a value.    *)
HoldsCodeAbc123(q) ==
  /\ \E i \in 1..Len(q) : q[i] = CodeAbc123
  /\ \A i \in 1..Len(q) :
       (q[i].name = CodeName /\ q[i].eq /\ q[i].value # << >>)
         => q[i] = CodeAbc123

(* C12: _extract_code returns None for the empty URL and for every URL     *)
(* whose query has no parameter named code (a fragment is not the query);  *)
(* for every URL whose query holds code=abc123 it returns 'abc123',        *)
(* whatever parameters of other names stand before or after it; and a      *)
(* second call on the same URL returns what the first returned.            *)
C12_ExtractCode ==
  /\ [](ret.fn = "_extract_code" =>
          /\ location = << >> => ret.value = NoText
          /\ ~NamesCode(post.data) => ret.value = NoText
          /\ (location # << >> /\ HoldsCodeAbc123(post.data))
               => ret.value = SomeText(Abc123))
  /\ [][(ret.fn = "_extract_code" /\ ret'.fn = "_extract_code")
          => ret'.value = ret.value]_vars

(* Called twice on ...?state=S&code=abc123. *)
C12_Witness ==
  /\ ret.fn = "_extract_code"
  /\ ret.calls = 2
  /\ post.data = <<Param(StateName, TRUE, <<"S">>), CodeAbc123>>
  /\ location = UrlBase \o <<"?">> \o StateName \o <<"=", "S", "&">>
                  \o CodeName \o <<"=">> \o Abc123
  /\ ret.value = SomeText(Abc123)

-----------------------------------------------------------------------------
AuthorizeGets(rq) == {i \in 1..Len(rq) : rq[i].site = "authorize"}
RefreshPosts(rq) == {i \in 1..Len(rq) : rq[i].site = "refresh"}

(* The step in which refresh_access_token() is entered. *)
RefreshCalled ==
  /\ pc = "idle"
  /\ pc' # "idle"
  /\ op' = "refresh_access_token"

(* refresh_access_token() went to authenticate() without a refresh POST. *)
RefreshSkipped ==
  /\ op = "refresh_access_token"
  /\ requests # << >>
  /\ requests[1].site = "authorize"

(* C13: refresh_access_token() entered with no refresh token held (None or *)
(* the empty string) starts authenticate() at once, with no request issued *)
(* before its authorize GET; a refresh_token-grant POST is only ever sent   *)
(* with a non-empty refresh token; and when the call returns on this path  *)
(* authenticate() has run exactly once (one authorize GET) and its outcome *)
(* is what the call returns.                                               *)
C13_RefreshWithoutToken ==
  /\ [](op = "refresh_access_token" =>
          \A i \in RefreshPosts(requests) :
            /\ i = 1
            /\ Truthy(requests[i].data.refresh_token))
  /\ []((RefreshSkipped /\ Returned("refresh_access_token")) =>
          /\ AuthorizeGets(requests) = {1}
          /\ auth_ret.run
          /\ ret.out = auth_ret.out)
  /\ [][(RefreshCalled /\ ~Truthy(refresh_token)) =>
          /\ pc' = "authorize"
          /\ requests' = << >>
          /\ ~auth_ret'.run
          /\ ~TokensChange]_vars

(* Without a refresh token the call logged in afresh and returned True. *)
C13_Witness ==
  /\ RefreshSkipped
  /\ Returned("refresh_access_token")
  /\ RefreshPosts(requests) = {}
  /\ ret.out = Outcome(TRUE)
  /\ access_token = "T1"

(* The refresh_token-grant POST of the current call failed: a status other *)
(* than 200, or an exception of the request.                               *)
RefreshFailed ==
  /\ op = "refresh_access_token"
  /\ requests # << >>
  /\ requests[1].site = "refresh"
  /\ (requests[1].resp.error \/ requests[1].resp.status # 200)

(* The step that receives the answer to the refresh POST. *)
RefreshAnswered ==
  /\ pc = "refresh_post"
  /\ Len(requests') = 1
  /\ requests'[1].site = "refresh"

(* C14: when the refresh_token-grant POST is answered with a status other  *)
(* than 200 or raises, the same step leaves both tokens as they are and    *)
(* enters authenticate(); the authorize GET of that authenticate() comes   *)
(* after the refresh POST, no second refresh POST and no second authorize  *)
(* GET follows, and the call returns what that one authenticate() returned.*)
C14_RefreshFailedFallback ==
  /\ [](RefreshFailed =>
          /\ RefreshPosts(requests) = {1}
          /\ AuthorizeGets(requests) \subseteq {2}
          /\ (pc = "authorize" <=> AuthorizeGets(requests) = {})
          /\ pc # "refresh_post"
          /\ Returned("refresh_access_token") =>
               /\ AuthorizeGets(requests) = {2}
               /\ auth_ret.run
               /\ ret.out = auth_ret.out)
  /\ [][(RefreshAnswered /\ (requests'[1].resp.error
                              \/ requests'[1].resp.status # 200)) =>
          /\ ~TokensChange
          /\ pc' = "authorize"
          /\ ~auth_ret'.run]_vars

(* A refresh answered 400 was followed by a login that returned True. *)
C14_Witness ==
  /\ RefreshFailed
  /\ Answered(requests[1], 400)
  /\ Returned("refresh_access_token")
  /\ AuthorizeGets(requests) = {2}
  /\ ret.out = Outcome(TRUE)
  /\ requests[Len(requests)].site = "token"

-----------------------------------------------------------------------------
LoginPosts(rq) == {i \in 1..Len(rq) : rq[i].site = "login_post"}
TokenPosts(rq) == {i \in 1..Len(rq) : rq[i].site = "token"}

(* The page holds a form tag with a non-empty action attribute. *)
HasLoginForm(html) ==
  \E i \in 1..Len(html) :
    /\ html[i].tag = "form"
    /\ \E j \in 1..Len(html[i].attrs) :
         html[i].attrs[j][1] = "action" /\ html[i].attrs[j][2] # ""

(* Request i was answered 200 with a login page that holds a form. *)
LoginPageAt(i) ==
  /\ requests[i].site \in {"authorize", "login_page"}
  /\ Answered(requests[i], 200)
  /\ HasLoginForm(requests[i].resp.html)
  /\ requests[i].site = "login_page" =>
       /\ i > 1
       /\ requests[i - 1].site = "authorize"
       /\ Answered(requests[i - 1], 302)
       /\ requests[i].url = requests[i - 1].resp.location

(* authenticate() has returned False without a credential POST and without *)
(* a token POST.                                                           *)
FailedBeforeLogin ==
  /\ pc = "idle"
  /\ auth_ret = [run |-> TRUE, out |-> Outcome(FALSE)]
  /\ LoginPosts(requests) = {}
  /\ TokenPosts(requests) = {}

(* C15: in one authenticate() attempt there is at most one credential      *)
(* POST; it carries Username and Password, comes right after a request     *)
(* answered 200 with a page holding a login form (the authorize GET, or    *)
(* the login-page GET to the Location of the authorize GET's 302) and goes *)
(* to the action of that form.  When the authorize GET is answered with a  *)
(* status other than 200 and 302 (400 among them), when the login-page GET *)
(* is answered with a status other than 200, or when the page obtained     *)
(* holds no form action, authenticate() returns False with no credential   *)
(* POST and no token POST issued.                                          *)
C15_CredentialsOnlyToForm ==
  /\ Cardinality(LoginPosts(requests)) <= 1
  /\ Cardinality(AuthorizeGets(requests)) <= 1
  /\ \A i \in LoginPosts(requests) :
       /\ i > 1
       /\ LoginPageAt(i - 1)
       /\ requests[i].method = "POST"
       /\ requests[i].url = "https://www.brink-home.com" \o FormActionPath
       /\ requests[i].data.Username = Username
       /\ requests[i].data.Password = Password
  /\ \A i \in 1..Len(requests) :
       LET q == requests[i]
       IN /\ (q.site = "authorize" /\ ~q.resp.error
                /\ q.resp.status \notin {200, 302}) => FailedBeforeLogin
          /\ (q.site = "login_page" /\ ~q.resp.error /\ q.resp.status # 200)
               => FailedBeforeLogin
          /\ (q.site \in {"authorize", "login_page"} /\ Answered(q, 200)
                /\ ~HasLoginForm(q.resp.html)) => FailedBeforeLogin

(* The credentials went to the form of the page the authorize GET's 302    *)
(* led to.                                                                 *)
C15_Witness ==
  /\ op = "authenticate"
  /\ Len(requests) >= 3
  /\ requests[1].site = "authorize"
  /\ Answered(requests[1], 302)
  /\ requests[2].site = "login_page"
  /\ requests[2].resp.html = LoginPage
  /\ requests[3].site = "login_post"
  /\ requests[3].data.Password = Password

-----------------------------------------------------------------------------
(* The code parameter the Location headers of the modelled server carry,   *)
(* read off the URLs themselves.                                           *)
CodeCarried(loc) ==
  CASE loc = "https://www.brink-home.com/app?code=XYZ&state=S" -> "XYZ"
    [] loc = "https://www.brink-home.com/app?code=ABC" -> "ABC"
    [] loc = "/app?state=S&code=ABC" -> "ABC"
    [] OTHER -> None

LastRequest == requests[Len(requests)]

(* The step that receives a 302 answer to the credential POST. *)
LoginPost302 ==
  /\ pc = "login_post"
  /\ Len(requests') = Len(requests) + 1
  /\ Answered(requests'[Len(requests')], 302)

(* authenticate() has ended in the redirect follower: the credential POST  *)
(* was answered 302 and the last request is that POST or a hop.            *)
FollowerGaveUp ==
  /\ pc = "idle"
  /\ LoginPosts(requests) # {}
  /\ \A i \in LoginPosts(requests) : Answered(requests[i], 302)
  /\ LastRequest.site \in {"login_post", "hop"}

(* C16: the Location header of a 302 answer to the credential POST is what *)
(* the redirect follower starts from: a Location carrying a code goes to   *)
(* the token POST with that code, a missing or empty Location ends the     *)
(* attempt at once, any other Location is the first hop (made absolute).   *)
(* When the follower ends without a code, authenticate() returns False and *)
(* no token POST has been issued; a token POST after the credential POST   *)
(* always carries the code of the Location received just before it.        *)
C16_LoginRedirectFollowed ==
  /\ [][LoginPost302 =>
          LET loc == requests'[Len(requests')].resp.location
          IN IF loc = ""
               THEN /\ pc' = "idle"
                    /\ auth_ret' = [run |-> TRUE, out |-> Outcome(FALSE)]
             ELSE IF CodeCarried(loc) # None
               THEN pc' = "exchange" /\ code' = CodeCarried(loc)
             ELSE /\ pc' = "follow"
                  /\ redirect_count' = 1
                  /\ location' = (IF loc = "/idsrv/redirect1"
                                    THEN "https://www.brink-home.com" \o loc
                                    ELSE loc)]_vars
  /\ [](FollowerGaveUp =>
          /\ auth_ret = [run |-> TRUE, out |-> Outcome(FALSE)]
          /\ TokenPosts(requests) = {})
  /\ [](\A t \in TokenPosts(requests) :
          /\ t > 1
          /\ requests[t].data.code # None
          /\ requests[t].data.code = CodeCarried(requests[t - 1].resp.location))

(* The credential POST was answered 302 without a Location header. *)
C16_Witness ==
  /\ FollowerGaveUp
  /\ LastRequest.site = "login_post"
  /\ LastRequest.resp.location = ""
  /\ auth_ret = [run |-> TRUE, out |-> Outcome(FALSE)]

-----------------------------------------------------------------------------
(* The step that receives the answer to the authorization_code POST. *)
ExchangeAnswered ==
  /\ pc = "exchange"
  /\ Len(requests') = Len(requests) + 1
  /\ requests'[Len(requests')].site = "token"

(* The value a JSON body gives for a key; None when the key is absent. *)
BodyValue(body, key) == IF key \in DOMAIN body THEN body[key] ELSE None

(* C17: a token response to the code exchange with a status other than 200 *)
(* makes authenticate() return False with both stored tokens unchanged; a  *)
(* 200 response with a JSON body sets access_token and refresh_token to    *)
(* the body's values and returns True, a refresh_token the body lacks      *)
(* leaving None stored whatever was held before; and a                     *)
(* refresh_access_token() entered next after such an exchange sends no     *)
(* refresh POST and starts authenticate().                                 *)
C17_CodeExchange ==
  /\ [][ExchangeAnswered =>
          LET q == requests'[Len(requests')]
          IN /\ (~q.resp.error /\ q.resp.status # 200) =>
                  /\ ~TokensChange
                  /\ auth_ret' = [run |-> TRUE, out |-> Outcome(FALSE)]
             /\ (Answered(q, 200) /\ q.resp.json_ok) =>
                  /\ access_token' = BodyValue(q.resp.json, "access_token")
                  /\ refresh_token' = BodyValue(q.resp.json, "refresh_token")
                  /\ auth_ret' = [run |-> TRUE, out |-> Outcome(TRUE)]]_vars
  /\ [][(RefreshCalled /\ requests # << >> /\ LastRequest.site = "token"
           /\ Answered(LastRequest, 200) /\ LastRequest.resp.json_ok
           /\ "refresh_token" \notin DOMAIN LastRequest.resp.json) =>
          /\ pc' = "authorize"
          /\ requests' = << >>]_vars

(* The refresh token R1, sent in the failed refresh POST, is gone after    *)
(* the exchange of the fallback login was answered without a               *)
(* refresh_token.                                                          *)
C17_Witness ==
  /\ Returned("refresh_access_token")
  /\ requests[1].site = "refresh"
  /\ requests[1].data.refresh_token = "R1"
  /\ LastRequest.site = "token"
  /\ Answered(LastRequest, 200)
  /\ LastRequest.resp.json = [access_token |-> "T2"]
  /\ access_token = "T2"
  /\ refresh_token = None
  /\ ret.out = Outcome(TRUE)

-----------------------------------------------------------------------------
(* The step that receives the answer to a hop of the redirect follower. *)
HopAnswered ==
  /\ pc = "follow"
  /\ Len(requests') = Len(requests) + 1
  /\ requests'[Len(requests')].site = "hop"

(* A relative Location made absolute, read off the URLs themselves. *)
Absolute(loc) ==
  IF loc \in {"/idsrv/redirect1", "/app?state=S&code=ABC"}
    THEN "https://www.brink-home.com" \o loc ELSE loc

FollowerNotFound ==
  /\ pc' = "idle"
  /\ auth_ret' = [run |-> TRUE, out |-> Outcome(FALSE)]

(* C18: in the redirect follower a hop answered 302 makes the Location     *)
(* header of the answer the current location and the loop goes on with it: *)
(* before the tenth hop is used up, a Location carrying a code is returned *)
(* as the code, an empty one ends the loop, and any other is the next GET  *)
(* (made absolute), with one more hop counted.  A hop answered 200, with   *)
(* any other status, or failing with a network error ends the follower     *)
(* with not-found at once, and no request follows.  An empty initial       *)
(* location returns not-found with no hop at all.                          *)
C18_FollowerStep ==
  /\ [][HopAnswered =>
          LET q == requests'[Len(requests')]
              loc == q.resp.location
          IN /\ q.method = "GET"
             /\ q.url = location
             /\ (Answered(q, 302) /\ redirect_count < 10) =>
                  IF loc = "" THEN FollowerNotFound
                  ELSE IF CodeCarried(loc) # None
                    THEN pc' = "exchange" /\ code' = CodeCarried(loc)
                  ELSE /\ pc' = "follow"
                       /\ location' = Absolute(loc)
                       /\ redirect_count' = redirect_count + 1
             /\ ~Answered(q, 302) => FollowerNotFound]_vars
  /\ [](\A i \in Hops(requests) :
          ~Answered(requests[i], 302) => (i = Len(requests) /\ pc = "idle"))
  /\ [][(LoginPost302 /\ requests'[Len(requests')].resp.location = "") =>
          FollowerNotFound]_vars
  /\ [](\A i \in LoginPosts(requests) :
          (Answered(requests[i], 302) /\ requests[i].resp.location = "") =>
            i = Len(requests))

(* A first hop answered 302 led to a second hop, which was answered 200    *)
(* and ended the attempt.                                                  *)
C18_Witness ==
  /\ pc = "idle"
  /\ Cardinality(Hops(requests)) = 2
  /\ Answered(requests[Len(requests) - 1], 302)
  /\ requests[Len(requests) - 1].site = "hop"
  /\ LastRequest.site = "hop"
  /\ LastRequest.url = "https://www.brink-home.com/idsrv/redirect1"
  /\ Answered(LastRequest, 200)
  /\ auth_ret = [run |-> TRUE, out |-> Outcome(FALSE)]

-----------------------------------------------------------------------------
(* Request i handed the follower a location with a code: the 302 answer to *)
(* the credential POST (the initial location) or to a hop.                 *)
DeliversCode(i) ==
  /\ requests[i].site \in {"login_post", "hop"}
  /\ Answered(requests[i], 302)
  /\ CodeCarried(requests[i].resp.location) # None

(* C19: whenever the initial location of the redirect follower, or the     *)
(* Location of the 302 answer to one of its GETs (there are never more     *)
(* than 10), carries a code, the follower returns that code: the next      *)
(* request is the token POST with it, and no GET to that location.         *)
C19_FindsEveryCode ==
  /\ Cardinality(Hops(requests)) <= 10
  /\ \A i \in 1..Len(requests) :
       DeliversCode(i) =>
         IF i = Len(requests)
           THEN /\ pc = "exchange"
                /\ code = CodeCarried(requests[i].resp.location)
           ELSE /\ requests[i + 1].site = "token"
                /\ requests[i + 1].data.code
                     = CodeCarried(requests[i].resp.location)

-----------------------------------------------------------------------------
(* The place of a request in the login protocol. *)
Rank(site) ==
  CASE site = "refresh" -> 0
    [] site = "authorize" -> 1
    [] site = "login_page" -> 2
    [] site = "login_post" -> 3
    [] site = "hop" -> 4
    [] site = "token" -> 5

(* C20: the requests of one authenticate() attempt come in the order       *)
(* authorize GET, login-page GET (if any), credential POST, hop GETs,      *)
(* token POST, each of them but the hops at most once and the authorize    *)
(* GET first; the token POST, if there is one, is the last request, is an  *)
(* authorization_code grant, and carries the code of the Location of the   *)
(* 302 answer received just before it in the same attempt; so every code   *)
(* received is posted at most once, and none is kept when the attempt is   *)
(* over.                                                                   *)
C20_ProtocolOrder ==
  /\ \A i \in 1..Len(requests) : \A j \in 1..Len(requests) :
       i < j =>
         /\ Rank(requests[i].site) <= Rank(requests[j].site)
         /\ Rank(requests[i].site) = Rank(requests[j].site)
              => requests[i].site = "hop"
  /\ \A i \in 1..Len(requests) :
       Rank(requests[i].site) > 1 => AuthorizeGets(requests) # {}
  /\ \A i \in AuthorizeGets(requests) : requests[i].method = "GET"
  /\ \A i \in LoginPosts(requests) : requests[i].method = "POST"
  /\ \A i \in Hops(requests) : requests[i].method = "GET"
  /\ Cardinality(TokenPosts(requests)) <= 1
  /\ \A t \in TokenPosts(requests) :
       /\ t = Len(requests)
       /\ t > 1
       /\ requests[t].method = "POST"
       /\ requests[t].data.grant_type = "authorization_code"
       /\ requests[t - 1].site \in {"authorize", "login_post", "hop"}
       /\ Answered(requests[t - 1], 302)
       /\ requests[t].data.code # None
       /\ requests[t].data.code = CodeCarried(requests[t - 1].resp.location)
       /\ pc = "idle"
  /\ pc = "idle" => code = None

(* A login through all five kinds of request. *)
C20_Witness ==
  /\ Completed("authenticate")
  /\ Len(requests) = 5
  /\ requests[1].site = "authorize"
  /\ requests[2].site = "login_page"
  /\ requests[3].site = "login_post"
  /\ requests[4].site = "hop"
  /\ requests[5].site = "token"
  /\ requests[5].data.code = "ABC"
  /\ auth_ret = [run |-> TRUE, out |-> Outcome(TRUE)]

-----------------------------------------------------------------------------
(* The step in which an authenticate() attempt begins: called directly, or *)
(* as the fallback of refresh_access_token().                              *)
AttemptBegins ==
  /\ pc \notin AuthenticatePcs
  /\ pc' = "authorize"

(* C21: an authenticate() attempt begins by drawing a verifier of its own  *)
(* (none is held when it begins, directly or as a refresh fallback); the   *)
(* challenge in the attempt's authorize GET is the S256 challenge of that  *)
(* verifier, the verifier stays the same through the attempt, and the      *)
(* code_verifier of the attempt's token POST is the verifier whose         *)
(* challenge the authorize GET of the same attempt carried; outside an     *)
(* attempt no verifier is held, and no stored token is a verifier.         *)
C21_PkceBinding ==
  /\ [][AttemptBegins =>
          /\ code_verifier = None
          /\ code_verifier' \in {"V1", "V2"}
          /\ AuthorizeGets(requests') = {}]_vars
  /\ []((pc \in AuthenticatePcs) =>
          /\ code_verifier \in {"V1", "V2"}
          /\ \A a \in AuthorizeGets(requests) :
               /\ requests[a].data.code_challenge = "S256:" \o code_verifier
               /\ requests[a].data.code_challenge_method = "S256")
  /\ [](\A t \in TokenPosts(requests) :
          /\ requests[t].data.code_verifier \in {"V1", "V2"}
          /\ \E a \in AuthorizeGets(requests) :
               /\ a < t
               /\ requests[a].data.code_challenge
                    = "S256:" \o requests[t].data.code_verifier)
  /\ []((pc \notin AuthenticatePcs) => code_verifier = None)
  /\ [](access_token \notin {"V1", "V2"} /\ refresh_token \notin {"V1", "V2"})

(* The fallback login of a refresh sent the challenge of V2 and then V2. *)
C21_Witness ==
  /\ Returned("refresh_access_token")
  /\ Len(requests) >= 3
  /\ requests[1].site = "refresh"
  /\ requests[2].site = "authorize"
  /\ requests[2].data.code_challenge = "S256:V2"
  /\ LastRequest.site = "token"
  /\ LastRequest.data.code_verifier = "V2"
  /\ code_verifier = None

-----------------------------------------------------------------------------
(* C22: whenever authenticate() or refresh_access_token() has returned     *)
(* True, the session holds an access token, is_authenticated is true and   *)
(* get_auth_headers() returns the bearer header of that token, whatever    *)
(* the 200 token response held, a JSON body without access_token included. *)
C22_SuccessUsable ==
  ((Returned("authenticate") \/ Returned("refresh_access_token"))
     /\ ret.out = Outcome(TRUE)) =>
    /\ access_token # None
    /\ IsAuthenticated(access_token)
    /\ GetAuthHeaders(access_token)
         = {<<"Authorization", "Bearer " \o access_token>>}

-----------------------------------------------------------------------------
LoginPageGets(rq) == {i \in 1..Len(rq) : rq[i].site = "login_page"}

(* C23: with every request answered sooner or later, a call in progress    *)
(* completes.  An authenticate() call issues one authorize GET, at most    *)
(* one login-page GET, at most one credential POST, at most 10 hop GETs    *)
(* and at most one token POST, 14 requests at most; a                      *)
(* refresh_access_token() call issues at most one refresh POST, as its     *)
(* first request, and runs authenticate() at most once, and no refresh     *)
(* POST is ever issued from within authenticate().                         *)
C23_Termination ==
  /\ [](/\ Cardinality(AuthorizeGets(requests)) <= 1
        /\ Cardinality(LoginPageGets(requests)) <= 1
        /\ Cardinality(LoginPosts(requests)) <= 1
        /\ Cardinality(Hops(requests)) <= 10
        /\ Cardinality(TokenPosts(requests)) <= 1
        /\ RefreshPosts(requests) \subseteq {1}
        /\ op = "authenticate" =>
             (RefreshPosts(requests) = {} /\ Len(requests) <= 14)
        /\ op = "refresh_access_token" =>
             Len(requests) <= Cardinality(RefreshPosts(requests)) + 14
        /\ (pc = "idle" /\ op \in {"authenticate", "refresh_access_token"})
             => /\ requests # << >>
                /\ auth_ret.run \/ LastRequest.site = "refresh")
  /\ [][(pc \in AuthenticatePcs /\ pc' \notin AuthenticatePcs)
          => pc' = "idle"]_vars
  /\ (pc # "idle") ~> (pc = "idle")

(* An authenticate() that used up all ten hops: 13 requests. *)
C23_Witness ==
  /\ Returned("authenticate")
  /\ Len(requests) = 13
  /\ Cardinality(Hops(requests)) = 10
  /\ requests[1].site = "authorize"
  /\ requests[2].site = "login_page"
  /\ requests[3].site = "login_post"
  /\ ret.out = Outcome(FALSE)

-----------------------------------------------------------------------------
(* The token pair a JSON body gives. *)
PairOf(body) ==
  <<BodyValue(body, "access_token"), BodyValue(body, "refresh_token")>>

(* The stored pair is the pair of the 200 answer to token POST i, whose    *)
(* call has returned True.                                                 *)
StoredFrom(i) ==
  /\ Answered(requests[i], 200)
  /\ requests[i].resp.json_ok
  /\ pc[requests[i].call] = "done"
  /\ ret[requests[i].call].out = Outcome(TRUE)
  /\ <<access_token, refresh_token>> = PairOf(requests[i].resp.json)

(* C24: with two authenticate() calls overlapping on one session, after    *)
(* every step the stored pair of tokens is the initial empty pair or the   *)
(* pair of one single 200 answer to a code exchange, and both tokens       *)
(* change only in the step in which a call, resumed with its parsed token  *)
(* response, writes the pair of that response and returns True.            *)
C24_PairFromOneResponse ==
  /\ [](\/ <<access_token, refresh_token>> = <<None, None>>
        \/ \E i \in 1..Len(requests) : StoredFrom(i))
  /\ [][TokensChange =>
          \E c \in Calls :
            /\ pc[c] = "json"
            /\ pc'[c] = "done"
            /\ ret'[c].out = Outcome(TRUE)
            /\ <<access_token', refresh_token'>>
                 = PairOf(TokenAnswerOf(c).json)]_vars

(* The call whose token response came first wrote last: its pair (T2 and   *)
(* no refresh token) replaced the pair T1, R1 of the other call.           *)
C24_Witness ==
  /\ \A c \in Calls : pc[c] = "done" /\ ret[c].out = Outcome(TRUE)
  /\ Len(requests) = 2
  /\ requests[1].resp.json = [access_token |-> "T2"]
  /\ requests[2].resp.json = [access_token |-> "T1", refresh_token |-> "R1"]
  /\ access_token = "T2"
  /\ refresh_token = None

====
